---- MODULE Spec2Model ----
(***************************************************************************)
(* Order lifecycle and delivery dispatch of delivero-backend.              *)
(*                                                                         *)
(* The database holds the Order, User (driver profile), Restaurant and     *)
(* MenuItem collections.  Every request handler is an async function: it   *)
(* loads a document (findById), checks it, changes its in-memory copy and  *)
(* writes the changed paths back (save), then runs its follow-up updates.  *)
(* Each await is a point where another handler may run, so a handler is    *)
(* modelled as a record that moves read -> save -> follow-up steps -> done;*)
(* the handlers in flight form a bag.                                      *)
(*                                                                         *)
(* Mongoose's save() sends only the paths the handler modified ($set), and *)
(* the statusHistory.push of the pre-save hook as a $push; it carries no   *)
(* version condition, so it applies to whatever the document is then.      *)
(* Prices are whole cents; the amounts of a pricing snapshot are counted   *)
(* in hundredths of a cent, so that a rate applies to them without rounding.*)
(***************************************************************************)
EXTENDS Integers, Sequences, FiniteSets, Bags, TLC

\* ------------------------------------------------------------------ bounds
\* number of requests started in one behaviour of Spec
MaxOps == 4

\* number of requests of one behaviour of SpecLifecycle
LifecycleOps == 7

\* number of requests of one behaviour of SpecPricing
PricingOps == 2
\* requests sent in SpecOperations
OperationsOps == 8
\* requests sent in SpecReports
ReportOps == 1
\* largest quantity of an item in the requests of SpecPricing
MaxQuantity == 3
\* number of requests of one behaviour of SpecDispatch
DispatchOps == 2
\* number of requests of one behaviour of SpecAssignment
AssignmentOps == 3
\* number of ready orders of the far restaurant in the collection of SpecDispatch
MaxFillers == 20

\* ------------------------------------------------------------- static data
Null == "null"

Orders == {"o1"}
Customers == {"c1", "c2"}
\* w3 has the restaurant role and has not registered a restaurant
Owners == {"w1", "w2", "w3"}
Drivers == {"d1", "d2"}
Admins == {"a1"}
Accounts == Customers \cup Owners \cup Drivers \cup Admins
\* the accounts that send the requests that change orders; c2 and w3 send
\* none of those and read the listings
Users == Accounts \ {"c2", "w3"}
Restaurants == {"r1", "r2", "r3", "r4"}
MenuItems == {"m1", "m2", "m3"}
Slots == {1, 2}

\* User.role
Role(u) ==
    IF u \in Customers THEN "customer"
    ELSE IF u \in Owners THEN "restaurant"
    ELSE IF u \in Drivers THEN "driver"
    ELSE "admin"

\* Restaurant documents (catalog data, not changed by the order engine)
RestaurantOwner(r) == IF r = "r1" THEN "w1" ELSE "w2"
RestaurantIsActive(r) == r # "r4"
RestaurantIsOpen(r) == r # "r2"
RestaurantDeliveryFee(r) == IF r = "r3" THEN 199 * 100 ELSE 300 * 100
RestaurantMinimumOrder(r) == IF r = "r3" THEN 0 ELSE 1000 * 100
\* restaurant.location: the restaurants lie on one meridian, the position is
\* the distance in km from its origin
RestaurantLocation(r) == IF r = "r1" THEN 2 ELSE IF r = "r2" THEN 8 ELSE 15

\* MenuItem documents
MenuItemPrice(m) == IF m = "m1" THEN 600 * 100 ELSE 1099 * 100
MenuItemIsAvailable(m) == m # "m3"

\* orderSchema.status enum
StatusEnum ==
    {"pending", "confirmed", "preparing", "ready", "assigned",
     "picked-up", "on-the-way", "delivered", "cancelled", "rejected"}

\* status values a client may send in the body of PUT /:id/status
RequestedStatuses == StatusEnum \cup {"bogus"}

validPaymentMethods == {"card", "cash", "wallet"}

RestaurantTargets == {"confirmed", "preparing", "ready", "rejected"}
DriverTargets == {"picked-up", "on-the-way", "delivered"}

\* ------------------------------------------------------------------ pricing
SERVICE_FEE_PERCENT == 8
SURGE_MULTIPLIER_PERCENT == 150
COMMISSION_PERCENT == 20

RECURSIVE Sum(_)
Sum(subtotals) ==
    IF subtotals = <<>> THEN 0 ELSE Head(subtotals) + Sum(Tail(subtotals))

\* process.env as calculatePricing reads it: each variable is unset (<<>>) or
\* holds a rate, written here in percent (<<150>> for "1.5")
Env(serviceFeeRate, surgeMultiplier, commissionRate) ==
    [SERVICE_FEE_RATE |-> serviceFeeRate, SURGE_MULTIPLIER |-> surgeMultiplier,
     COMMISSION_RATE |-> commissionRate]

\* the environment in which none of the three variables is set
NoEnv == Env(<<>>, <<>>, <<>>)

\* parseFloat(process.env.X || fallback), in percent
parseFloatOr(value, fallback) == IF value = <<>> THEN fallback ELSE value[1]

\* calculatePricing as it would be if the commission were taken from the
\* subtotal after the service fee had been added to it
calculatePricingCommissionOnFee(items, deliveryFee, isSurgeTime, env) ==
    LET subtotal == Sum(items)
        serviceFee ==
            (subtotal * parseFloatOr(env.SERVICE_FEE_RATE, SERVICE_FEE_PERCENT))
            \div 100
        surgeMultiplier ==
            IF isSurgeTime
            THEN parseFloatOr(env.SURGE_MULTIPLIER, SURGE_MULTIPLIER_PERCENT)
            ELSE 100
        adjustedDeliveryFee == (deliveryFee * surgeMultiplier) \div 100
        commissionRate == parseFloatOr(env.COMMISSION_RATE, COMMISSION_PERCENT)
    IN  [subtotal |-> subtotal, deliveryFee |-> adjustedDeliveryFee,
         serviceFee |-> serviceFee, tax |-> 0, discount |-> 0,
         total |-> subtotal + adjustedDeliveryFee + serviceFee,
         platformCommission |->
             ((subtotal + serviceFee) * commissionRate) \div 100 + serviceFee,
         restaurantEarnings |-> subtotal - (subtotal * commissionRate) \div 100,
         driverEarnings |-> adjustedDeliveryFee]

\* calculatePricing as it would be if the driver earned the restaurant's base
\* delivery fee, whatever the surge
calculatePricingBaseDriverFee(items, deliveryFee, isSurgeTime, env) ==
    LET subtotal == Sum(items)
        serviceFee ==
            (subtotal * parseFloatOr(env.SERVICE_FEE_RATE, SERVICE_FEE_PERCENT))
            \div 100
        surgeMultiplier ==
            IF isSurgeTime
            THEN parseFloatOr(env.SURGE_MULTIPLIER, SURGE_MULTIPLIER_PERCENT)
            ELSE 100
        adjustedDeliveryFee == (deliveryFee * surgeMultiplier) \div 100
        commissionRate == parseFloatOr(env.COMMISSION_RATE, COMMISSION_PERCENT)
    IN  [subtotal |-> subtotal, deliveryFee |-> adjustedDeliveryFee,
         serviceFee |-> serviceFee, tax |-> 0, discount |-> 0,
         total |-> subtotal + adjustedDeliveryFee + serviceFee,
         platformCommission |-> (subtotal * commissionRate) \div 100 + serviceFee,
         restaurantEarnings |-> subtotal - (subtotal * commissionRate) \div 100,
         driverEarnings |-> deliveryFee]

\* calculatePricing as it would be if the service fee were charged to the
\* customer and credited to nobody
calculatePricingFeeUncredited(items, deliveryFee, isSurgeTime, env) ==
    LET subtotal == Sum(items)
        serviceFee ==
            (subtotal * parseFloatOr(env.SERVICE_FEE_RATE, SERVICE_FEE_PERCENT))
            \div 100
        surgeMultiplier ==
            IF isSurgeTime
            THEN parseFloatOr(env.SURGE_MULTIPLIER, SURGE_MULTIPLIER_PERCENT)
            ELSE 100
        adjustedDeliveryFee == (deliveryFee * surgeMultiplier) \div 100
        commissionRate == parseFloatOr(env.COMMISSION_RATE, COMMISSION_PERCENT)
    IN  [subtotal |-> subtotal, deliveryFee |-> adjustedDeliveryFee,
         serviceFee |-> serviceFee, tax |-> 0, discount |-> 0,
         total |-> subtotal + adjustedDeliveryFee + serviceFee,
         platformCommission |-> (subtotal * commissionRate) \div 100,
         restaurantEarnings |-> subtotal - (subtotal * commissionRate) \div 100,
         driverEarnings |-> adjustedDeliveryFee]

\* items: the subtotals of the order items
calculatePricing(items, deliveryFee, isSurgeTime, env) ==
    LET subtotal == Sum(items)
        serviceFee ==
            (subtotal * parseFloatOr(env.SERVICE_FEE_RATE, SERVICE_FEE_PERCENT))
            \div 100
        surgeMultiplier ==
            IF isSurgeTime
            THEN parseFloatOr(env.SURGE_MULTIPLIER, SURGE_MULTIPLIER_PERCENT)
            ELSE 100
        adjustedDeliveryFee == (deliveryFee * surgeMultiplier) \div 100
        total == subtotal + adjustedDeliveryFee + serviceFee
        commissionRate == parseFloatOr(env.COMMISSION_RATE, COMMISSION_PERCENT)
        platformCommission == (subtotal * commissionRate) \div 100 + serviceFee
        restaurantEarnings == subtotal - (subtotal * commissionRate) \div 100
        driverEarnings == adjustedDeliveryFee
    IN  [subtotal |-> subtotal, deliveryFee |-> adjustedDeliveryFee,
         serviceFee |-> serviceFee, tax |-> 0, discount |-> 0, total |-> total,
         platformCommission |-> platformCommission,
         restaurantEarnings |-> restaurantEarnings,
         driverEarnings |-> driverEarnings]

\* -------------------------------------------------------------------- state
VARIABLES
    orders,          \* Order collection: order id -> document
    isAvailable,     \* User.driverProfile.isAvailable, per driver
    totalDeliveries, \* User.driverProfile.totalDeliveries, per driver
    stats,           \* Restaurant.stats, per restaurant
    popularity,      \* MenuItem.popularity / totalOrders, per menu item
    inflight,        \* the request handlers in flight, a bag of handler records
    resp,            \* the response sent by the latest step, if it sent one
    accepted,        \* the drivers that acceptOrder has answered with success
    nops             \* requests that may still be started

vars ==
    <<orders, isAvailable, totalDeliveries, stats, popularity, inflight, resp,
      accepted, nops>>

NoPricing == calculatePricing(<<>>, 0, FALSE, NoEnv)

\* an order id under which no document is stored
NoOrder ==
    [exists |-> FALSE, customer |-> Null, restaurant |-> Null, driver |-> Null,
     status |-> "pending", statusHistory |-> <<>>, items |-> <<>>,
     pricing |-> NoPricing,
     payMethod |-> Null, payStatus |-> "pending", transactionId |-> Null,
     stamps |-> {},
     cancelReason |-> Null, cancelledBy |-> Null,
     orderNumber |-> Null, isSurgeTime |-> FALSE, surgeMultiplier |-> 100]

\* the paths of a loaded Order document that a handler reads after the load
\* (customer, restaurant and pricing never change once the order exists)
Loaded(order) ==
    [status |-> order.status, driver |-> order.driver, payStatus |-> order.payStatus,
     orderNumber |-> order.orderNumber]

NoResp ==
    [op |-> "none", actor |-> Null, oid |-> Null, target |-> Null,
     doc |-> Loaded(NoOrder), out |-> "none", query |-> Null, data |-> <<>>,
     events |-> {}, emitFailed |-> FALSE, env |-> NoEnv,
     message |-> Null]

Init ==
    /\ orders = [o \in Orders |-> NoOrder]
    /\ isAvailable = [d \in Drivers |-> FALSE]
    /\ totalDeliveries = [d \in Drivers |-> 0]
    /\ stats = [r \in Restaurants |-> [totalOrders |-> 0, totalRevenue |-> 0]]
    /\ popularity = [m \in MenuItems |-> 0]
    /\ inflight = EmptyBag
    /\ resp = NoResp
    /\ accepted = [o \in Orders |-> {}]
    /\ nops = MaxOps

\* ------------------------------------------------------------------ helpers
\* the node process takes a new request while fewer handlers than Slots run
CanStart ==
    /\ nops > 0
    /\ BagCardinality(inflight) < Cardinality(Slots)

\* middleware authorize(...roles) in front of a route
authorize(u, roles) == Role(u) \in roles

\* a handler record: where the handler stands and what it holds
Handler(pc, op, u, o, target, doc) ==
    [pc |-> pc, op |-> op, actor |-> u, oid |-> o, target |-> target, doc |-> doc,
     reason |-> Null]

\* the response that is sent
Send(op, u, o, target, doc, out) ==
    /\ resp' = [NoResp EXCEPT !.op = op, !.actor = u, !.oid = o,
                               !.target = target, !.doc = doc, !.out = out]
    /\ accepted' = IF op = "acceptOrder" /\ out = "ok"
                   THEN [accepted EXCEPT ![o] = @ \cup {u}]
                   ELSE accepted

\* the response of a step that publishes events before it answers: io.emit
\* is called inside the handler's try block, so when it throws the handler's
\* catch passes the error on and the caller gets the error response
SendEmit(op, u, o, target, doc, events, emitOk) ==
    /\ resp' = [NoResp EXCEPT !.op = op, !.actor = u, !.oid = o,
                               !.target = target, !.doc = doc,
                               !.out = IF emitOk THEN "ok" ELSE "Error",
                               !.events = IF emitOk THEN events ELSE {},
                               !.emitFailed = ~emitOk]
    /\ accepted' = IF op = "acceptOrder" /\ emitOk
                   THEN [accepted EXCEPT ![o] = @ \cup {u}]
                   ELSE accepted

\* a new request is answered before its handler reaches an await
Reply(op, u, o, target, doc, out) ==
    /\ UNCHANGED inflight
    /\ Send(op, u, o, target, doc, out)

\* a new request passes its checks and waits for its save
Begin(pc, op, u, o, target, doc) ==
    /\ inflight' = inflight (+) SetToBag({Handler(pc, op, u, o, target, doc)})
    /\ resp' = NoResp
    /\ UNCHANGED accepted

\* a new request with a reason in its body passes its checks
BeginWithReason(pc, op, u, o, target, doc, reason) ==
    /\ inflight' = inflight (+) SetToBag(
           {[Handler(pc, op, u, o, target, doc) EXCEPT !.reason = reason]})
    /\ resp' = NoResp
    /\ UNCHANGED accepted

\* handler r sends its response and ends
Respond(r, out) ==
    /\ inflight' = inflight (-) SetToBag({r})
    /\ Send(r.op, r.actor, r.oid, r.target, r.doc, out)

\* handler r publishes its events, sends its response and ends
RespondEmit(r, events, emitOk) ==
    /\ inflight' = inflight (-) SetToBag({r})
    /\ SendEmit(r.op, r.actor, r.oid, r.target, r.doc, events, emitOk)

\* handler r goes on to its next await
Continue(r, pc) ==
    /\ inflight' = (inflight (-) SetToBag({r})) (+) SetToBag({[r EXCEPT !.pc = pc]})
    /\ resp' = NoResp
    /\ UNCHANGED accepted

\* the hook as it would be without its isModified('status') condition
PreSaveStatusHistoryAlways(history, loadedStatus, newStatus) ==
    Append(history, newStatus)

\* the hook as it would be if it pushed the status the document was loaded with
PreSaveStatusHistoryStale(history, loadedStatus, newStatus) ==
    IF newStatus # loadedStatus THEN Append(history, loadedStatus) ELSE history

\* the hook as it would be if it logged the first change of a document only
PreSaveStatusHistoryFirstChange(history, loadedStatus, newStatus) ==
    IF newStatus # loadedStatus /\ history = <<>>
    THEN Append(history, newStatus)
    ELSE history

\* orderSchema.pre('save'): push the status when the handler modified it
PreSaveStatusHistory(history, loadedStatus, newStatus) ==
    IF newStatus # loadedStatus THEN Append(history, newStatus) ELSE history

\* ------------------------------------------------------- POST /api/orders
Quantities == {1, 2}
PaymentMethods == {"cash"}
SurgeInputs == {FALSE}

\* an entry of req.body.items: the menu item, the quantity and the prices of
\* the selected options of its customizations
Item(m, quantity, options) ==
    [menuItem |-> m, quantity |-> quantity, options |-> options]

\* the item lists of the requests of Spec: one item without customizations
Items == {<<Item(m, q, <<>>)>> : m \in {"m1"}, q \in Quantities}

\* itemPrice as it would be if an option were charged once, not per unit
itemPriceOptionsOnce(item) ==
    MenuItemPrice(item.menuItem) * item.quantity + Sum(item.options)

\* createOrder's itemPrice: the item's subtotal including customizations
itemPrice(item) ==
    MenuItemPrice(item.menuItem) * item.quantity
    + Sum([i \in 1..Len(item.options) |-> item.options[i] * item.quantity])

\* the subtotals of orderItems
orderItems(items) == [i \in 1..Len(items) |-> itemPrice(items[i])]

\* the quantity the items order of menu item m
QuantityOf(items, m) ==
    Sum([i \in 1..Len(items) |->
               IF items[i].menuItem = m THEN items[i].quantity ELSE 0])

\* the order numbers the pre-save hook generates from the clock and a random
\* suffix: one at the creating save, another one at any later save
FirstNumber == "ORD-1"
LaterNumber == "ORD-2"

\* the hook as it would be without its condition
PreSaveOrderNumberAlways(orderNumber, generated) == generated

\* orderSchema.pre('save'): generate the order number when there is none
PreSaveOrderNumber(orderNumber, generated) ==
    IF orderNumber = Null THEN generated ELSE orderNumber

\* the orderNumber stored after a save of a document that was loaded with
\* order number loaded: the path is written when the hook modified it
SavedOrderNumber(stored, loaded) ==
    LET inMemory == PreSaveOrderNumber(loaded, LaterNumber)
    IN  IF inMemory # loaded THEN inMemory ELSE stored

\* the response of createOrder
createOrderReply(u, o, doc, out, message, events, emitOk, env) ==
    /\ resp' = [NoResp EXCEPT !.op = "createOrder", !.actor = u, !.oid = o,
                               !.target = "pending", !.doc = doc, !.out = out,
                               !.message = message,
                               !.events = events, !.emitFailed = ~emitOk,
                               !.env = env]
    /\ UNCHANGED <<inflight, accepted>>

\* the checks of createOrder in their order: the message of the 400 response
\* of the first check that fails, Null when all pass
createOrderRejection(restaurantId, items, paymentMethod, subtotal) ==
    IF \/ restaurantId \notin Restaurants
       \/ ~RestaurantIsActive(restaurantId)
       \/ ~RestaurantIsOpen(restaurantId)
    THEN "Restaurant is not available for orders"
    ELSE IF paymentMethod \notin validPaymentMethods
    THEN "Invalid payment method"
    ELSE IF \E i \in 1..Len(items) :
               \/ items[i].menuItem \notin MenuItems
               \/ ~MenuItemIsAvailable(items[i].menuItem)
    THEN "Menu item is not available"
    ELSE IF subtotal < RestaurantMinimumOrder(restaurantId)
    THEN "Minimum order amount"
    ELSE Null

\* countedItems as it would be if the counters were raised while the items
\* are validated, before the minimum order check
countedItemsWhileValidated(items, message, stored, emitOk) ==
    IF message \in {Null, "Minimum order amount"} THEN items ELSE <<>>

\* the items whose popularity counters createOrder raises: its loop over
\* orderItems comes after Order.create and the newOrder event
countedItems(items, message, stored, emitOk) ==
    IF message = Null /\ stored /\ emitOk THEN items ELSE <<>>

\* createOrder: every check, Order.create, the newOrder event, the popularity
\* update.  The new document takes status 'pending' from the schema default; a
\* default is not a modified path, so the pre-save hook pushes nothing on the
\* creating save.  surgeMultiplier is parseFloat(process.env.SURGE_MULTIPLIER)
\* without a fallback: under surge with the variable unset it is NaN, which
\* the Number path refuses, so Order.create throws and nothing is stored.
createOrder(u, restaurantId, items, paymentMethod, isSurgeTime, env, emitOk) ==
    LET pricing == calculatePricing(orderItems(items),
                                    RestaurantDeliveryFee(restaurantId),
                                    isSurgeTime, env)
        message == createOrderRejection(restaurantId, items, paymentMethod,
                                        pricing.subtotal)
        castFails == isSurgeTime /\ env.SURGE_MULTIPLIER = <<>>
        stored == message = Null /\ ~castFails
        counted == countedItems(items, message, stored, emitOk)
    IN  /\ CanStart
        /\ authorize(u, {"customer"})
        /\ nops' = nops - 1
        /\ IF message # Null
           THEN /\ createOrderReply(u, Null, Loaded(NoOrder), "BadRequest",
                                    message, {}, TRUE, env)
                /\ UNCHANGED orders
           ELSE IF castFails
           THEN /\ createOrderReply(u, Null, Loaded(NoOrder), "Error", Null, {},
                                    TRUE, env)
                /\ UNCHANGED orders
           ELSE \E o \in Orders :
                /\ ~orders[o].exists
                /\ LET doc == [NoOrder EXCEPT
                                  !.exists = TRUE, !.customer = u,
                                  !.restaurant = restaurantId,
                                  !.items = items,
                                  !.pricing = pricing,
                                  !.payMethod = paymentMethod,
                                  !.orderNumber =
                                      PreSaveOrderNumber(Null, FirstNumber),
                                  !.isSurgeTime = isSurgeTime,
                                  !.surgeMultiplier =
                                      IF isSurgeTime
                                      THEN env.SURGE_MULTIPLIER[1] ELSE 100]
                   IN  /\ orders' = [orders EXCEPT ![o] = doc]
                       /\ createOrderReply(u, o, Loaded(doc),
                                           IF emitOk THEN "ok" ELSE "Error",
                                           Null,
                                           IF emitOk THEN {"newOrder"} ELSE {},
                                           emitOk, env)
        /\ popularity' =
               [m \in MenuItems |-> popularity[m] + QuantityOf(counted, m)]
        /\ UNCHANGED <<isAvailable, totalDeliveries, stats>>

\* ------------------------------------------------ PUT /api/orders/:id/status
\* updateOrderStatus up to its save: load the order, the authorization checks
updateOrderStatus(u, o, status) ==
    LET order == orders[o]
    IN  /\ CanStart
        /\ authorize(u, {"restaurant", "driver"})
        /\ nops' = nops - 1
        /\ IF ~order.exists
           THEN Reply("updateOrderStatus", u, o, status, Loaded(order), "NotFound")
           ELSE IF /\ status \in RestaurantTargets
                   /\ RestaurantOwner(order.restaurant) # u
           THEN Reply("updateOrderStatus", u, o, status, Loaded(order), "Forbidden")
           ELSE IF /\ status \in DriverTargets
                   /\ (order.driver = Null \/ order.driver # u)
           THEN Reply("updateOrderStatus", u, o, status, Loaded(order), "Forbidden")
           ELSE Begin("save", "updateOrderStatus", u, o, status, Loaded(order))
        /\ UNCHANGED <<orders, isAvailable, totalDeliveries, stats, popularity>>

\* the milestone timestamp updateOrderStatus stamps for a status
StampsFor(status) ==
    IF status = "confirmed" THEN {"acceptedAt"}
    ELSE IF status = "ready" THEN {"preparedAt"}
    ELSE IF status = "picked-up" THEN {"pickedUpAt"}
    ELSE IF status = "delivered" THEN {"deliveredAt", "paidAt"}
    ELSE {}

\* updateOrderStatus: order.save() and the response
updateOrderStatusSave(r, emitOk) ==
    LET o == r.oid
        cur == orders[o]
    IN  /\ r.pc = "save"
        /\ r.op = "updateOrderStatus"
        /\ IF r.target \notin StatusEnum
           THEN \* enum validation rejects the save
                /\ Respond(r, "Error")
                /\ UNCHANGED orders
           ELSE /\ orders' = [orders EXCEPT ![o] =
                      [cur EXCEPT
                         !.status = IF r.target # r.doc.status THEN r.target ELSE @,
                         !.statusHistory =
                             PreSaveStatusHistory(@, r.doc.status, r.target),
                         !.orderNumber = SavedOrderNumber(@, r.doc.orderNumber),
                         !.stamps = @ \cup StampsFor(r.target),
                         !.payStatus =
                             IF r.target = "delivered" /\ r.doc.payStatus # "completed"
                             THEN "completed" ELSE @]]
                /\ RespondEmit(r, {"orderStatusUpdate", "orderUpdate"}, emitOk)
        /\ UNCHANGED <<isAvailable, totalDeliveries, stats, popularity, nops>>

\* ------------------------------------------- POST /api/delivery/accept/:id
\* acceptOrder up to its save: load the order, the three checks
acceptOrder(u, o) ==
    LET order == orders[o]
    IN  /\ CanStart
        /\ authorize(u, {"driver"})
        /\ nops' = nops - 1
        /\ IF ~order.exists
           THEN Reply("acceptOrder", u, o, "assigned", Loaded(order), "NotFound")
           ELSE IF order.status # "ready"
           THEN Reply("acceptOrder", u, o, "assigned", Loaded(order), "NotReady")
           ELSE IF order.driver # Null
           THEN Reply("acceptOrder", u, o, "assigned", Loaded(order), "AlreadyAssigned")
           ELSE Begin("save", "acceptOrder", u, o, "assigned", Loaded(order))
        /\ UNCHANGED <<orders, isAvailable, totalDeliveries, stats, popularity>>

\* acceptOrder: order.save() with driver and status set
acceptOrderSave(r) ==
    LET o == r.oid
    IN  /\ r.pc = "save"
        /\ r.op = "acceptOrder"
        /\ orders' = [orders EXCEPT ![o] =
              [@ EXCEPT !.driver = r.actor,
                        !.status = "assigned",
                        !.statusHistory =
                            PreSaveStatusHistory(@, r.doc.status, "assigned"),
                        !.orderNumber = SavedOrderNumber(@, r.doc.orderNumber)]]
        /\ Continue(r, "driverUpdate")
        /\ UNCHANGED <<isAvailable, totalDeliveries, stats, popularity, nops>>

\* acceptOrder: User.findByIdAndUpdate(isAvailable: false), the driverAssigned
\* event, the response
acceptOrderDriverUpdate(r, emitOk) ==
    /\ r.pc = "driverUpdate"
    /\ r.op = "acceptOrder"
    /\ isAvailable' = [isAvailable EXCEPT ![r.actor] = FALSE]
    /\ RespondEmit(r, {"driverAssigned"}, emitOk)
    /\ UNCHANGED <<orders, totalDeliveries, stats, popularity, nops>>

\* -------------------------------------------- PUT /api/delivery/:id/pickup
\* pickupOrder up to its save
pickupOrder(u, o) ==
    LET order == orders[o]
    IN  /\ CanStart
        /\ authorize(u, {"driver"})
        /\ nops' = nops - 1
        /\ IF ~order.exists
           THEN Reply("pickupOrder", u, o, "picked-up", Loaded(order), "NotFound")
           ELSE IF order.driver = Null
           THEN \* order.driver.toString() throws on the missing driver
                Reply("pickupOrder", u, o, "picked-up", Loaded(order), "Error")
           ELSE IF order.driver # u
           THEN Reply("pickupOrder", u, o, "picked-up", Loaded(order), "Forbidden")
           ELSE IF order.status # "assigned"
           THEN Reply("pickupOrder", u, o, "picked-up", Loaded(order), "InvalidStatus")
           ELSE Begin("save", "pickupOrder", u, o, "picked-up", Loaded(order))
        /\ UNCHANGED <<orders, isAvailable, totalDeliveries, stats, popularity>>

\* pickupOrder: order.save() and the response
pickupOrderSave(r, emitOk) ==
    LET o == r.oid
    IN  /\ r.pc = "save"
        /\ r.op = "pickupOrder"
        /\ orders' = [orders EXCEPT ![o] =
              [@ EXCEPT !.status = "picked-up",
                        !.stamps = @ \cup {"pickedUpAt"},
                        !.statusHistory =
                            PreSaveStatusHistory(@, r.doc.status, "picked-up"),
                        !.orderNumber = SavedOrderNumber(@, r.doc.orderNumber)]]
        /\ RespondEmit(r, {"orderPickedUp"}, emitOk)
        /\ UNCHANGED <<isAvailable, totalDeliveries, stats, popularity, nops>>

\* ------------------------------------------ PUT /api/delivery/:id/complete
\* completeDelivery up to its save
completeDelivery(u, o) ==
    LET order == orders[o]
    IN  /\ CanStart
        /\ authorize(u, {"driver"})
        /\ nops' = nops - 1
        /\ IF ~order.exists
           THEN Reply("completeDelivery", u, o, "delivered", Loaded(order), "NotFound")
           ELSE IF order.driver = Null
           THEN \* order.driver.toString() throws on the missing driver
                Reply("completeDelivery", u, o, "delivered", Loaded(order), "Error")
           ELSE IF order.driver # u
           THEN Reply("completeDelivery", u, o, "delivered", Loaded(order), "Forbidden")
           ELSE Begin("save", "completeDelivery", u, o, "delivered", Loaded(order))
        /\ UNCHANGED <<orders, isAvailable, totalDeliveries, stats, popularity>>

\* completeDelivery: order.save()
completeDeliverySave(r) ==
    LET o == r.oid
    IN  /\ r.pc = "save"
        /\ r.op = "completeDelivery"
        /\ orders' = [orders EXCEPT ![o] =
              [@ EXCEPT !.status = IF r.doc.status # "delivered" THEN "delivered" ELSE @,
                        !.stamps = @ \cup {"deliveredAt", "paidAt"},
                        !.payStatus =
                            IF r.doc.payStatus # "completed" THEN "completed" ELSE @,
                        !.statusHistory =
                            PreSaveStatusHistory(@, r.doc.status, "delivered"),
                        !.orderNumber = SavedOrderNumber(@, r.doc.orderNumber)]]
        /\ Continue(r, "driverUpdate")
        /\ UNCHANGED <<isAvailable, totalDeliveries, stats, popularity, nops>>

\* completeDelivery: User.findByIdAndUpdate($inc totalDeliveries, isAvailable)
completeDeliveryDriverUpdate(r) ==
    /\ r.pc = "driverUpdate"
    /\ r.op = "completeDelivery"
    /\ totalDeliveries' = [totalDeliveries EXCEPT ![r.actor] = @ + 1]
    /\ isAvailable' = [isAvailable EXCEPT ![r.actor] = TRUE]
    /\ Continue(r, "restaurantUpdate")
    /\ UNCHANGED <<orders, stats, popularity, nops>>

\* completeDelivery: Restaurant.findByIdAndUpdate($inc stats), the response
completeDeliveryRestaurantUpdate(r, emitOk) ==
    /\ r.pc = "restaurantUpdate"
    /\ r.op = "completeDelivery"
    /\ stats' = [stats EXCEPT ![orders[r.oid].restaurant] =
          [totalOrders |-> @.totalOrders + 1,
           totalRevenue |-> @.totalRevenue + orders[r.oid].pricing.restaurantEarnings]]
    /\ RespondEmit(r, {"orderDelivered"}, emitOk)
    /\ UNCHANGED <<orders, isAvailable, totalDeliveries, popularity, nops>>

\* ------------------------------------------------ PUT /api/orders/:id/cancel
\* cancelledBy as it would be if the owner of the restaurant were not looked at
CancelledByCustomerOrAdmin(order, u) ==
    IF order.customer = u THEN "customer" ELSE "admin"

\* who cancelOrder records as cancelledBy
CancelledBy(order, u) ==
    IF order.customer = u THEN "customer"
    ELSE IF RestaurantOwner(order.restaurant) = u THEN "restaurant"
    ELSE "admin"

\* the reasons a client gives in the body of PUT /:id/cancel
Reasons == {"changed mind"}

\* cancelOrder up to its save: the status check, then the authorization check
cancelOrder(u, o, reason) ==
    LET order == orders[o]
        isCustomer == order.customer = u
        isRestaurant == RestaurantOwner(order.restaurant) = u
    IN  /\ CanStart
        /\ authorize(u, {"customer", "restaurant", "admin"})
        /\ nops' = nops - 1
        /\ IF ~order.exists
           THEN Reply("cancelOrder", u, o, "cancelled", Loaded(order), "NotFound")
           ELSE IF order.status \in {"delivered", "cancelled"}
           THEN Reply("cancelOrder", u, o, "cancelled", Loaded(order), "CannotCancel")
           ELSE IF ~isCustomer /\ ~isRestaurant /\ Role(u) # "admin"
           THEN Reply("cancelOrder", u, o, "cancelled", Loaded(order), "Forbidden")
           ELSE BeginWithReason("save", "cancelOrder", u, o, "cancelled",
                                Loaded(order), reason)
        /\ UNCHANGED <<orders, isAvailable, totalDeliveries, stats, popularity>>

\* cancelOrderSave as it would be if cancelling marked the payment refunded
cancelOrderSaveRefunding(r, emitOk) ==
    LET o == r.oid
    IN  /\ r.pc = "save"
        /\ r.op = "cancelOrder"
        /\ orders' = [orders EXCEPT ![o] =
              [@ EXCEPT !.status = "cancelled",
                        !.cancelReason = r.reason,
                        !.cancelledBy = CancelledBy(orders[o], r.actor),
                        !.stamps = @ \cup {"cancelledAt"},
                        !.payStatus =
                            IF @ = "completed" THEN "refunded" ELSE @,
                        !.statusHistory =
                            PreSaveStatusHistory(@, r.doc.status, "cancelled"),
                        !.orderNumber = SavedOrderNumber(@, r.doc.orderNumber)]]
        /\ RespondEmit(r, {"orderCancelled"}, emitOk)
        /\ UNCHANGED <<isAvailable, totalDeliveries, stats, popularity, nops>>

\* cancelOrder: order.save() with status and cancellation set, the response
cancelOrderSave(r, emitOk) ==
    LET o == r.oid
    IN  /\ r.pc = "save"
        /\ r.op = "cancelOrder"
        /\ orders' = [orders EXCEPT ![o] =
              [@ EXCEPT !.status = "cancelled",
                        !.cancelReason = r.reason,
                        !.cancelledBy = CancelledBy(orders[o], r.actor),
                        !.stamps = @ \cup {"cancelledAt"},
                        !.statusHistory =
                            PreSaveStatusHistory(@, r.doc.status, "cancelled"),
                        !.orderNumber = SavedOrderNumber(@, r.doc.orderNumber)]]
        /\ RespondEmit(r, {"orderCancelled"}, emitOk)
        /\ UNCHANGED <<isAvailable, totalDeliveries, stats, popularity, nops>>

\* ------------------------------------ PUT /api/delivery/toggle-availability
\* toggleAvailability up to its save: load the driver, negate the flag
toggleAvailability(u) ==
    /\ CanStart
    /\ authorize(u, {"driver"})
    /\ nops' = nops - 1
    /\ Begin(IF isAvailable[u] THEN "saveFalse" ELSE "saveTrue",
             "toggleAvailability", u, Null, Null, Loaded(NoOrder))
    /\ UNCHANGED <<orders, isAvailable, totalDeliveries, stats, popularity>>

\* toggleAvailability: driver.save() and the response
toggleAvailabilitySave(r) ==
    /\ r.op = "toggleAvailability"
    /\ r.pc \in {"saveFalse", "saveTrue"}
    /\ isAvailable' = [isAvailable EXCEPT ![r.actor] = (r.pc = "saveTrue")]
    /\ Respond(r, "ok")
    /\ UNCHANGED <<orders, totalDeliveries, stats, popularity, nops>>

\* ------------------------------------------ POST /api/payments/create-intent
\* createPaymentIntent up to its save: the body is complete or not, the order
\* is loaded and must be the caller's, Stripe creates the intent or throws
createPaymentIntent(u, o, complete, created) ==
    LET order == orders[o]
    IN  /\ CanStart
        /\ nops' = nops - 1
        /\ IF ~complete
           THEN Reply("createPaymentIntent", u, o, Null, Loaded(NoOrder),
                      "BadRequest")
           ELSE IF ~order.exists \/ order.customer # u
           THEN Reply("createPaymentIntent", u, o, Null, Loaded(order), "NotFound")
           ELSE IF ~created
           THEN Reply("createPaymentIntent", u, o, Null, Loaded(order), "Error")
           ELSE Begin("save", "createPaymentIntent", u, o, Null, Loaded(order))
        /\ UNCHANGED <<orders, isAvailable, totalDeliveries, stats, popularity>>

\* createPaymentIntent: order.save() with the transaction id, the response
createPaymentIntentSave(r) ==
    LET o == r.oid
    IN  /\ r.pc = "save"
        /\ r.op = "createPaymentIntent"
        /\ orders' = [orders EXCEPT ![o] =
              [@ EXCEPT !.transactionId = "pi",
                        !.orderNumber = SavedOrderNumber(@, r.doc.orderNumber)]]
        /\ Respond(r, "ok")
        /\ UNCHANGED <<isAvailable, totalDeliveries, stats, popularity, nops>>

\* ------------------------------------------------ POST /api/payments/confirm
\* confirmPayment up to its save: the payment intent retrieved from Stripe
\* has succeeded or not, then the order is loaded
confirmPayment(u, o, succeeded) ==
    LET order == orders[o]
    IN  /\ CanStart
        /\ nops' = nops - 1
        /\ IF ~succeeded
           THEN Reply("confirmPayment", u, o, Null, Loaded(NoOrder), "BadRequest")
           ELSE IF ~order.exists
           THEN Reply("confirmPayment", u, o, Null, Loaded(order), "NotFound")
           ELSE Begin("save", "confirmPayment", u, o, Null, Loaded(order))
        /\ UNCHANGED <<orders, isAvailable, totalDeliveries, stats, popularity>>

\* confirmPayment: order.save() with payment.status and paidAt set, the response
confirmPaymentSave(r) ==
    LET o == r.oid
    IN  /\ r.pc = "save"
        /\ r.op = "confirmPayment"
        /\ orders' = [orders EXCEPT ![o] =
              [@ EXCEPT !.payStatus =
                            IF r.doc.payStatus # "completed" THEN "completed" ELSE @,
                        !.stamps = @ \cup {"paidAt"},
                        !.orderNumber = SavedOrderNumber(@, r.doc.orderNumber)]]
        /\ Respond(r, "ok")
        /\ UNCHANGED <<isAvailable, totalDeliveries, stats, popularity, nops>>

\* ------------------------------------------------- POST /api/payments/refund
\* processRefund up to its save: the order is loaded and must have a
\* transaction id, Stripe creates the refund or throws
processRefund(u, o, refunded) ==
    LET order == orders[o]
    IN  /\ CanStart
        /\ nops' = nops - 1
        /\ IF ~order.exists
           THEN Reply("processRefund", u, o, Null, Loaded(order), "NotFound")
           ELSE IF order.transactionId = Null
           THEN Reply("processRefund", u, o, Null, Loaded(order), "BadRequest")
           ELSE IF ~refunded
           THEN Reply("processRefund", u, o, Null, Loaded(order), "Error")
           ELSE Begin("save", "processRefund", u, o, Null, Loaded(order))
        /\ UNCHANGED <<orders, isAvailable, totalDeliveries, stats, popularity>>

\* processRefundSave as it would be if a refund took the refunded amount off
\* the order's total
processRefundSaveReducingTotal(r) ==
    LET o == r.oid
    IN  /\ r.pc = "save"
        /\ r.op = "processRefund"
        /\ orders' = [orders EXCEPT ![o] =
              [@ EXCEPT !.payStatus =
                            IF r.doc.payStatus # "refunded" THEN "refunded" ELSE @,
                        !.pricing = [@ EXCEPT !.total = 0],
                        !.orderNumber = SavedOrderNumber(@, r.doc.orderNumber)]]
        /\ Respond(r, "ok")
        /\ UNCHANGED <<isAvailable, totalDeliveries, stats, popularity, nops>>

\* processRefund: order.save() with payment.status 'refunded', the response
processRefundSave(r) ==
    LET o == r.oid
    IN  /\ r.pc = "save"
        /\ r.op = "processRefund"
        /\ orders' = [orders EXCEPT ![o] =
              [@ EXCEPT !.payStatus =
                            IF r.doc.payStatus # "refunded" THEN "refunded" ELSE @,
                        !.orderNumber = SavedOrderNumber(@, r.doc.orderNumber)]]
        /\ Respond(r, "ok")
        /\ UNCHANGED <<isAvailable, totalDeliveries, stats, popularity, nops>>

\* ------------------------------------------------ POST /api/payments/webhook
\* the event types Stripe sends
WebhookEvents ==
    {"payment_intent.succeeded", "payment_intent.payment_failed", "charge.updated"}

\* stripeWebhook: the signature check, then Order.findOneAndUpdate on the
\* order that holds the payment intent (a query update: no save hook runs)
stripeWebhook(signed, type, intent) ==
    /\ CanStart
    /\ nops' = nops - 1
    /\ IF ~signed
       THEN /\ Reply("stripeWebhook", Null, Null, Null, Loaded(NoOrder),
                       "BadRequest")
            /\ UNCHANGED orders
       ELSE /\ Reply("stripeWebhook", Null, Null, Null, Loaded(NoOrder), "ok")
            /\ IF type = "charge.updated"
                  \/ \A o \in Orders :
                         ~orders[o].exists \/ orders[o].transactionId # intent
               THEN UNCHANGED orders
               ELSE \E o \in Orders :
                      /\ orders[o].exists
                      /\ orders[o].transactionId = intent
                      /\ orders' = [orders EXCEPT ![o] =
                            IF type = "payment_intent.succeeded"
                            THEN [@ EXCEPT !.payStatus = "completed",
                                           !.stamps = @ \cup {"paidAt"}]
                            ELSE [@ EXCEPT !.payStatus = "failed"]]
    /\ UNCHANGED <<isAvailable, totalDeliveries, stats, popularity>>

\* ------------------------------------------------------------ specification
Next ==
    \/ \E u \in Users, r \in {"r1", "r2"}, items \in Items,
          pm \in PaymentMethods, surge \in SurgeInputs :
          createOrder(u, r, items, pm, surge, NoEnv, TRUE)
    \/ \E u \in Users, o \in Orders, st \in RequestedStatuses :
          updateOrderStatus(u, o, st)
    \/ \E r \in BagToSet(inflight) : updateOrderStatusSave(r, TRUE)
    \/ \E u \in Users, o \in Orders : acceptOrder(u, o)
    \/ \E r \in BagToSet(inflight) : acceptOrderSave(r)
    \/ \E r \in BagToSet(inflight) : acceptOrderDriverUpdate(r, TRUE)
    \/ \E u \in Users, o \in Orders : pickupOrder(u, o)
    \/ \E r \in BagToSet(inflight) : pickupOrderSave(r, TRUE)
    \/ \E u \in Users, o \in Orders : completeDelivery(u, o)
    \/ \E r \in BagToSet(inflight) : completeDeliverySave(r)
    \/ \E r \in BagToSet(inflight) : completeDeliveryDriverUpdate(r)
    \/ \E r \in BagToSet(inflight) : completeDeliveryRestaurantUpdate(r, TRUE)
    \/ \E u \in Users, o \in Orders, reason \in Reasons : cancelOrder(u, o, reason)
    \/ \E r \in BagToSet(inflight) : cancelOrderSave(r, TRUE)
    \/ \E u \in Users : toggleAvailability(u)
    \/ \E r \in BagToSet(inflight) : toggleAvailabilitySave(r)

Spec == Init /\ [][Next]_vars

\* ------------------------------------------------- requests that place orders
\* the requests of SpecPricing: one or two items of either menu item, with no,
\* one or two selected options, at any restaurant
OptionLists == {<<>>, <<200 * 100>>, <<50 * 100, 125 * 100>>}
PricedItems ==
    {Item("m1", q, opts) : q \in 1..MaxQuantity, opts \in OptionLists}
    \cup {Item("m2", 1, opts) : opts \in OptionLists}
    \cup {Item(m, 1, <<>>) : m \in {"m3", "m0"}}
PricedItemLists ==
    {<<a>> : a \in PricedItems}
    \cup {<<Item("m1", q, <<50 * 100, 125 * 100>>), Item("m2", 1, <<>>)>> :
              q \in 1..MaxQuantity}

\* item lists of requests sent to any restaurant with any payment method:
\* above the minimum, a menu item that is missing, one that is unavailable
RejectedItemLists ==
    {<<Item("m1", 2, <<>>)>>, <<Item("m0", 2, <<>>)>>, <<Item("m3", 2, <<>>)>>}

\* the settings of process.env the server is started with
PricingEnvs == {NoEnv, Env(<<10>>, <<150>>, <<15>>), Env(<<0>>, <<125>>, <<100>>)}
PricingUsers == {"c1", "w1"}
PricingPaymentMethods == {"card", "bitcoin"}

InitPricing ==
    /\ orders = [o \in Orders |-> NoOrder]
    /\ isAvailable = [d \in Drivers |-> FALSE]
    /\ totalDeliveries = [d \in Drivers |-> 0]
    /\ stats = [r \in Restaurants |-> [totalOrders |-> 0, totalRevenue |-> 0]]
    /\ popularity = [m \in MenuItems |-> 0]
    /\ inflight = EmptyBag
    /\ resp = NoResp
    /\ accepted = [o \in Orders |-> {}]
    /\ nops = PricingOps

NextPricing ==
    \/ \E u \in PricingUsers, r \in {"r1", "r3"}, items \in PricedItemLists,
          surge \in BOOLEAN, env \in PricingEnvs :
          createOrder(u, r, items, "card", surge, env, TRUE)
    \/ \E u \in PricingUsers, r \in Restaurants \cup {"r0"},
          items \in RejectedItemLists, pm \in PricingPaymentMethods :
          createOrder(u, r, items, pm, FALSE, NoEnv, TRUE)

SpecPricing == InitPricing /\ [][NextPricing]_vars

\* --------------------------------------------- GET /api/delivery/available
\* In SpecDispatch the Order collection is numbered 1..n in the order of
\* creation (createdAt grows with the number).
FindLimit == 20
SearchRadius == 10

\* the positions a driver reports (km on the meridian of the restaurants)
DriverLocations == {0, 5}

\* calculateDistance between two points of the meridian
calculateDistance(loc, restaurantLoc) ==
    IF loc >= restaurantLoc THEN loc - restaurantLoc ELSE restaurantLoc - loc

\* The find has no sort: the server returns the matching documents in the
\* order of the plan it picks, the collection or driver_1_status_1 (order of
\* creation) or status_1_createdAt_-1 (latest first).
QueryPlans == {"creation", "latestFirst"}

Scan(plan) ==
    LET n == Cardinality(DOMAIN orders)
    IN  [i \in 1..n |-> IF plan = "creation" THEN i ELSE n + 1 - i]

IsReadyUnassigned(o) ==
    orders[o].exists /\ orders[o].status = "ready" /\ orders[o].driver = Null

\* Order.find({status: 'ready', driver: null}).limit(20)
Find(plan) ==
    LET matching == SelectSeq(Scan(plan), IsReadyUnassigned)
    IN  SubSeq(matching, 1, IF Len(matching) < FindLimit THEN Len(matching)
                            ELSE FindLimit)

\* the distance from loc to the restaurant of order o
DistanceTo(loc, o) ==
    calculateDistance(loc, RestaurantLocation(orders[o].restaurant))

\* Array.prototype.sort by distance: a stable sort
RECURSIVE Insert(_, _, _)
Insert(sorted, o, loc) ==
    IF sorted = <<>> THEN <<o>>
    ELSE IF DistanceTo(loc, sorted[Len(sorted)]) <= DistanceTo(loc, o)
    THEN Append(sorted, o)
    ELSE Append(Insert(SubSeq(sorted, 1, Len(sorted) - 1), o, loc),
                sorted[Len(sorted)])

RECURSIVE SortByDistance(_, _)
SortByDistance(found, loc) ==
    IF found = <<>> THEN <<>>
    ELSE Insert(SortByDistance(SubSeq(found, 1, Len(found) - 1), loc),
                found[Len(found)], loc)

\* the response as it would be without the sort
ordersWithDistanceUnsorted(found, loc) ==
    LET WithinRadius(o) == DistanceTo(loc, o) <= SearchRadius
    IN  SelectSeq(found, WithinRadius)

\* ordersWithDistance: map the distance, filter by the radius, sort
ordersWithDistance(found, loc) ==
    LET WithinRadius(o) == DistanceTo(loc, o) <= SearchRadius
    IN  SortByDistance(SelectSeq(found, WithinRadius), loc)

\* getAvailableOrders: the driver is loaded, then the orders are found and the
\* response is computed from what the find returned
\* (located: the query carries lat and lng)
getAvailableOrders(u, located, loc, plan) ==
    /\ CanStart
    /\ authorize(u, {"driver"})
    /\ nops' = nops - 1
    /\ resp' =
          IF ~isAvailable[u]
          THEN [NoResp EXCEPT !.op = "getAvailableOrders", !.actor = u,
                              !.query = loc, !.out = "NotAvailable"]
          ELSE IF ~located
          THEN [NoResp EXCEPT !.op = "getAvailableOrders", !.actor = u,
                              !.query = loc, !.out = "LocationRequired"]
          ELSE [NoResp EXCEPT !.op = "getAvailableOrders", !.actor = u,
                              !.query = loc, !.out = "ok",
                              !.data = ordersWithDistance(Find(plan), loc)]
    /\ UNCHANGED <<orders, isAvailable, totalDeliveries, stats, popularity,
                   inflight, accepted>>

\* the collection of SpecDispatch: fillers ready orders of the far restaurant,
\* then three orders that are ready or not, assigned or not, of any restaurant
DispatchCollection(fillers, st, dr, rs) ==
    [o \in 1..(fillers + 3) |->
        IF o <= fillers
        THEN [NoOrder EXCEPT !.exists = TRUE, !.customer = "c1",
                             !.restaurant = "r3", !.status = "ready",
                             !.orderNumber = "ORD-" \o ToString(o)]
        ELSE [NoOrder EXCEPT !.exists = TRUE, !.customer = "c1",
                             !.orderNumber = "ORD-" \o ToString(o),
                             !.restaurant = rs[o - fillers],
                             !.status = st[o - fillers],
                             !.driver = dr[o - fillers]]]

\* status and driver of the orders of the collection
DispatchProfiles == {<<"ready", Null>>, <<"ready", "d1">>, <<"preparing", Null>>}

\* the restaurants of the orders of the collection
DispatchRestaurants == {"r1", "r2", "r3"}

InitDispatch ==
    /\ \E fillers \in {0, MaxFillers},
          sd \in [1..3 -> DispatchProfiles],
          rs \in [1..3 -> DispatchRestaurants] :
          orders = DispatchCollection(fillers, [o \in 1..3 |-> sd[o][1]],
                                      [o \in 1..3 |-> sd[o][2]], rs)
    /\ isAvailable = [d \in Drivers |-> FALSE]
    /\ totalDeliveries = [d \in Drivers |-> 0]
    /\ stats = [r \in Restaurants |-> [totalOrders |-> 0, totalRevenue |-> 0]]
    /\ popularity = [m \in MenuItems |-> 0]
    /\ inflight = EmptyBag
    /\ resp = NoResp
    /\ accepted = [o \in Orders |-> {}]
    /\ nops = DispatchOps

NextDispatch ==
    \/ \E u \in Users, located \in BOOLEAN, loc \in DriverLocations,
          plan \in QueryPlans :
          getAvailableOrders(u, located, loc, plan)
    \/ \E u \in Users : toggleAvailability(u)
    \/ \E r \in BagToSet(inflight) : toggleAvailabilitySave(r)

SpecDispatch == InitDispatch /\ [][NextDispatch]_vars

\* ------------------------------------- clients that follow the state machine
\* the transition graph of the order state machine
Successors(st) ==
    IF st = "pending" THEN {"confirmed", "rejected"}
    ELSE IF st = "confirmed" THEN {"preparing"}
    ELSE IF st = "preparing" THEN {"ready"}
    ELSE IF st = "ready" THEN {"assigned"}
    ELSE IF st = "assigned" THEN {"picked-up"}
    ELSE IF st = "picked-up" THEN {"on-the-way", "delivered"}
    ELSE IF st = "on-the-way" THEN {"delivered"}
    ELSE {}

\* the requests of SpecLifecycle: an item list below the minimum order and one
\* with customizations, payment in cash, by card or by an unknown method, two
\* reasons
LifecycleItems ==
    {<<Item("m1", 1, <<>>)>>,
     <<Item("m1", 1, <<50 * 100, 25 * 100>>), Item("m2", 2, <<>>)>>}
LifecyclePaymentMethods == {"cash", "card"}
LifecycleReasons == {"changed mind", "late"}

InitLifecycle ==
    /\ orders = [o \in Orders |-> NoOrder]
    /\ isAvailable = [d \in Drivers |-> FALSE]
    /\ totalDeliveries = [d \in Drivers |-> 0]
    /\ stats = [r \in Restaurants |-> [totalOrders |-> 0, totalRevenue |-> 0]]
    /\ popularity = [m \in MenuItems |-> 0]
    /\ inflight = EmptyBag
    /\ resp = NoResp
    /\ accepted = [o \in Orders |-> {}]
    /\ nops = LifecycleOps

\* a client sends its next request when the previous one has been answered,
\* and asks PUT /:id/status only for a successor of the status of the order,
\* or repeats the request that set this status
Idle == inflight = EmptyBag

NextLifecycle ==
    \/ /\ Idle
       /\ \E u \in Users, r \in {"r1", "r2"}, items \in LifecycleItems,
             pm \in LifecyclePaymentMethods, surge \in SurgeInputs :
             createOrder(u, r, items, pm, surge, NoEnv, TRUE)
    \/ /\ Idle
       /\ \E u \in Users, o \in Orders :
             \E st \in (Successors(orders[o].status) \ {"assigned"})
                        \cup ({orders[o].status} \ {"pending", "assigned"}) :
                 updateOrderStatus(u, o, st)
    \/ Idle /\ \E u \in Users, o \in Orders : acceptOrder(u, o)
    \/ Idle /\ \E u \in Users, o \in Orders : pickupOrder(u, o)
    \/ Idle /\ \E u \in Users, o \in Orders : completeDelivery(u, o)
    \/ /\ Idle
       /\ \E u \in Users, o \in Orders, reason \in LifecycleReasons :
             cancelOrder(u, o, reason)
    \/ Idle /\ \E u \in Users : toggleAvailability(u)
    \/ /\ Idle
       /\ \E u \in Customers \cap Users, o \in Orders, succeeded \in BOOLEAN :
             confirmPayment(u, o, succeeded)
    \/ /\ Idle
       /\ \E u \in (Customers \cap Users) \cup Admins, o \in Orders,
             complete \in BOOLEAN, created \in BOOLEAN :
             createPaymentIntent(u, o, complete, created)
    \/ \E r \in BagToSet(inflight) : createPaymentIntentSave(r)
    \/ \E r \in BagToSet(inflight) : confirmPaymentSave(r)
    \/ \E r \in BagToSet(inflight) : updateOrderStatusSave(r, TRUE)
    \/ \E r \in BagToSet(inflight) : acceptOrderSave(r)
    \/ \E r \in BagToSet(inflight) : acceptOrderDriverUpdate(r, TRUE)
    \/ \E r \in BagToSet(inflight) : pickupOrderSave(r, TRUE)
    \/ \E r \in BagToSet(inflight) : completeDeliverySave(r)
    \/ \E r \in BagToSet(inflight) : completeDeliveryDriverUpdate(r)
    \/ \E r \in BagToSet(inflight) : completeDeliveryRestaurantUpdate(r, TRUE)
    \/ \E r \in BagToSet(inflight) : cancelOrderSave(r, TRUE)
    \/ \E r \in BagToSet(inflight) : toggleAvailabilitySave(r)

SpecLifecycle == InitLifecycle /\ [][NextLifecycle]_vars

\* ------------------------------------------- orders, payments and events
\* One customer, the owner of the restaurant, one driver, the admin and
\* Stripe act on one order, one request after the other; publishing an event
\* succeeds or throws.
OperationsItems == {<<Item("m1", 2, <<>>)>>}

InitOperations ==
    /\ orders = [o \in Orders |-> NoOrder]
    /\ isAvailable = [d \in Drivers |-> FALSE]
    /\ totalDeliveries = [d \in Drivers |-> 0]
    /\ stats = [r \in Restaurants |-> [totalOrders |-> 0, totalRevenue |-> 0]]
    /\ popularity = [m \in MenuItems |-> 0]
    /\ inflight = EmptyBag
    /\ resp = NoResp
    /\ accepted = [o \in Orders |-> {}]
    /\ nops = OperationsOps

NextOperations ==
    \/ /\ Idle
       /\ \E items \in OperationsItems, emitOk \in BOOLEAN :
             createOrder("c1", "r1", items, "card", FALSE, NoEnv, emitOk)
    \/ /\ Idle
       /\ \E u \in {"w1", "d1"}, o \in Orders :
             \E st \in Successors(orders[o].status) \ {"assigned"} :
                 updateOrderStatus(u, o, st)
    \/ Idle /\ \E o \in Orders : acceptOrder("d1", o)
    \/ Idle /\ \E o \in Orders : pickupOrder("d1", o)
    \/ Idle /\ \E o \in Orders : completeDelivery("d1", o)
    \/ Idle /\ \E o \in Orders, reason \in Reasons : cancelOrder("c1", o, reason)
    \/ Idle /\ \E o \in Orders : createPaymentIntent("c1", o, TRUE, TRUE)
    \/ Idle /\ \E o \in Orders : confirmPayment("c1", o, TRUE)
    \/ Idle /\ \E o \in Orders, refunded \in BOOLEAN : processRefund("a1", o, refunded)
    \/ /\ Idle
       /\ \E signed \in BOOLEAN, type \in WebhookEvents :
             stripeWebhook(signed, type, "pi")
    \/ \E r \in BagToSet(inflight) : createPaymentIntentSave(r)
    \/ \E r \in BagToSet(inflight) : confirmPaymentSave(r)
    \/ \E r \in BagToSet(inflight) : processRefundSave(r)
    \/ \E r \in BagToSet(inflight), emitOk \in BOOLEAN :
          updateOrderStatusSave(r, emitOk)
    \/ \E r \in BagToSet(inflight) : acceptOrderSave(r)
    \/ \E r \in BagToSet(inflight), emitOk \in BOOLEAN :
          acceptOrderDriverUpdate(r, emitOk)
    \/ \E r \in BagToSet(inflight), emitOk \in BOOLEAN : pickupOrderSave(r, emitOk)
    \/ \E r \in BagToSet(inflight) : completeDeliverySave(r)
    \/ \E r \in BagToSet(inflight) : completeDeliveryDriverUpdate(r)
    \/ \E r \in BagToSet(inflight), emitOk \in BOOLEAN :
          completeDeliveryRestaurantUpdate(r, emitOk)
    \/ \E r \in BagToSet(inflight), emitOk \in BOOLEAN : cancelOrderSave(r, emitOk)

SpecOperations == InitOperations /\ [][NextOperations]_vars

\* --------------------------------------------- listings and reporting views
\* the day on which the requests of SpecReports are served
Today == 10

\* the day on which the order with key o was created; a delivered order was
\* delivered on the day of its creation
CreatedAt(o) == IF o = 1 THEN 1 ELSE IF o = 2 THEN 8 ELSE 9
DeliveredAt(o) == CreatedAt(o)

\* startDate and endDate of a query
Ranges == {<<1, 1>>, <<1, 8>>, <<8, 9>>}

\* the createdAt / deliveredAt condition of a query: set when the request
\* carries both startDate and endDate
InRange(day, ranged, range) == ranged => (range[1] <= day /\ day <= range[2])

RECURSIVE SumOver(_, _)
\* $sum of pricing.<field> over the orders of the set found
SumOver(found, field) ==
    IF found = {} THEN 0
    ELSE LET o == CHOOSE x \in found : TRUE
         IN  orders[o].pricing[field] + SumOver(found \ {o}, field)

\* $avg of pricing.<field>, cut to a hundredth of a cent
AvgOver(found, field) == SumOver(found, field) \div Cardinality(found)

ActiveStatuses ==
    {"pending", "confirmed", "preparing", "ready", "assigned", "picked-up",
     "on-the-way"}

\* the restaurants Restaurant.findOne({owner: u}) can return
OwnedBy(u) == {r \in Restaurants : RestaurantOwner(r) = u}

\* the query of getOrders: role-based filtering, then the status filter
\* (restaurant: what Restaurant.findOne returned, Null when it found none)
getOrdersQuery(u, restaurant, status, o) ==
    /\ orders[o].exists
    /\ Role(u) = "customer" => orders[o].customer = u
    /\ (Role(u) = "restaurant" /\ restaurant # Null)
          => orders[o].restaurant = restaurant
    /\ Role(u) = "driver" => orders[o].driver = u
    /\ status # Null => orders[o].status = status

\* Math.ceil(total / limit)
Pages(total, limit) == (total + limit - 1) \div limit

\* getOrders: the restaurant of a restaurant-role user is looked up, the
\* orders that match are sorted latest first and cut to the page
getOrders(u, status, page, limit) ==
    /\ CanStart
    /\ nops' = nops - 1
    /\ \E restaurant \in
             IF Role(u) = "restaurant" /\ OwnedBy(u) # {}
             THEN OwnedBy(u) ELSE {Null} :
          LET Matches(o) == getOrdersQuery(u, restaurant, status, o)
              matching == SelectSeq(Scan("latestFirst"), Matches)
              skip == (page - 1) * limit
              last == IF Len(matching) < skip + limit
                      THEN Len(matching) ELSE skip + limit
              found == SubSeq(matching, skip + 1, last)
          IN  resp' = [NoResp EXCEPT
                          !.op = "getOrders", !.actor = u, !.target = status,
                          !.out = "ok",
                          !.data = [orders |-> found, count |-> Len(found),
                                    total |-> Len(matching), page |-> page,
                                    pages |-> Pages(Len(matching), limit)]]
    /\ UNCHANGED <<orders, isAvailable, totalDeliveries, stats, popularity,
                   inflight, accepted>>

\* the query of a reporting view, kept with its response
ReportQuery(ranged, range, restaurant) ==
    [ranged |-> ranged, range |-> range, restaurant |-> restaurant]

\* getStats: the platform statistics
getStats(u, ranged, range) ==
    LET keys == {o \in DOMAIN orders : orders[o].exists}
        dateFilter == {o \in keys : InRange(CreatedAt(o), ranged, range)}
        delivered == {o \in dateFilter : orders[o].status = "delivered"}
        revenue ==
            IF delivered = {}
            THEN [totalRevenue |-> 0, platformCommission |-> 0,
                  restaurantEarnings |-> 0, driverEarnings |-> 0,
                  averageOrderValue |-> 0]
            ELSE [totalRevenue |-> SumOver(delivered, "total"),
                  platformCommission |-> SumOver(delivered, "platformCommission"),
                  restaurantEarnings |-> SumOver(delivered, "restaurantEarnings"),
                  driverEarnings |-> SumOver(delivered, "driverEarnings"),
                  averageOrderValue |-> AvgOver(delivered, "total")]
        statuses == {orders[o].status : o \in dateFilter}
    IN  /\ CanStart
        /\ nops' = nops - 1
        /\ resp' = [NoResp EXCEPT
              !.op = "getStats", !.actor = u, !.out = "ok",
              !.query = ReportQuery(ranged, range, Null),
              !.data =
                 [totalCustomers |-> Cardinality(Customers),
                  totalRestaurants |-> Cardinality(Restaurants),
                  totalDrivers |-> Cardinality(Drivers),
                  activeDrivers |-> Cardinality({d \in Drivers : isAvailable[d]}),
                  total |-> Cardinality(dateFilter),
                  completed |-> Cardinality(delivered),
                  cancelled |->
                      Cardinality({o \in dateFilter :
                                      orders[o].status = "cancelled"}),
                  active |->
                      Cardinality({o \in keys :
                                      orders[o].status \in ActiveStatuses}),
                  byStatus |->
                      [st \in statuses |->
                          Cardinality({o \in dateFilter : orders[o].status = st})],
                  revenue |-> revenue]]
        /\ UNCHANGED <<orders, isAvailable, totalDeliveries, stats, popularity,
                       inflight, accepted>>

\* the quantity and the subtotals of menu item m in the orders of found
TopItem(found, m) ==
    LET Lines(o) == {i \in 1..Len(orders[o].items) : orders[o].items[i].menuItem = m}
        Quantity(o) == QuantityOf(orders[o].items, m)
        Subtotal(o) ==
            Sum([i \in 1..Len(orders[o].items) |->
                    IF i \in Lines(o) THEN itemPrice(orders[o].items[i]) ELSE 0])
        RECURSIVE Total(_, _)
        Total(rest, quantity) ==
            IF rest = {} THEN 0
            ELSE LET o == CHOOSE x \in rest : TRUE
                 IN  (IF quantity THEN Quantity(o) ELSE Subtotal(o))
                     + Total(rest \ {o}, quantity)
    IN  [totalQuantity |-> Total(found, TRUE), totalRevenue |-> Total(found, FALSE)]

\* getAnalytics: the analytics of one restaurant.  Fewer than five menu items
\* are on sale, so the $limit of topItems cuts nothing; topItems and
\* dailyStats are kept by their group keys.
getAnalytics(u, restaurantId, ranged, range) ==
    LET keys == {o \in DOMAIN orders :
                    orders[o].exists /\ orders[o].restaurant = restaurantId}
        dateFilter == {o \in keys : InRange(CreatedAt(o), ranged, range)}
        delivered == {o \in dateFilter : orders[o].status = "delivered"}
        sold == {m \in MenuItems :
                    \E o \in dateFilter : QuantityOf(orders[o].items, m) > 0}
        last7Days == {o \in keys : CreatedAt(o) >= Today - 7}
        days == {CreatedAt(o) : o \in last7Days}
    IN  /\ CanStart
        /\ nops' = nops - 1
        /\ resp' = [NoResp EXCEPT
              !.op = "getAnalytics", !.actor = u, !.out = "ok",
              !.query = ReportQuery(ranged, range, restaurantId),
              !.data =
                 [totalOrders |-> Cardinality(dateFilter),
                  completedOrders |-> Cardinality(delivered),
                  cancelledOrders |->
                      Cardinality({o \in dateFilter :
                                      orders[o].status = "cancelled"}),
                  totalRevenue |-> SumOver(delivered, "restaurantEarnings"),
                  averageOrderValue |->
                      IF delivered = {} THEN 0
                      ELSE AvgOver(delivered, "restaurantEarnings"),
                  topItems |-> [m \in sold |-> TopItem(dateFilter, m)],
                  dailyStats |->
                      [day \in days |->
                          LET ofDay == {o \in last7Days : CreatedAt(o) = day}
                          IN  [orders |-> Cardinality(ofDay),
                               revenue |-> SumOver(ofDay, "restaurantEarnings")]]]]
        /\ UNCHANGED <<orders, isAvailable, totalDeliveries, stats, popularity,
                       inflight, accepted>>

\* getEarnings: the delivered orders of the driver and their earnings
getEarnings(u, ranged, range) ==
    LET found == {o \in DOMAIN orders :
                     /\ orders[o].exists
                     /\ orders[o].driver = u
                     /\ orders[o].status = "delivered"
                     /\ InRange(DeliveredAt(o), ranged, range)}
    IN  /\ CanStart
        /\ authorize(u, {"driver"})
        /\ nops' = nops - 1
        /\ resp' = [NoResp EXCEPT
              !.op = "getEarnings", !.actor = u, !.out = "ok",
              !.query = ReportQuery(ranged, range, Null),
              !.data =
                 [totalEarnings |-> SumOver(found, "driverEarnings"),
                  totalDeliveries |-> Cardinality(found),
                  averageEarning |->
                      IF found = {} THEN 0 ELSE AvgOver(found, "driverEarnings"),
                  orders |-> found]]
        /\ UNCHANGED <<orders, isAvailable, totalDeliveries, stats, popularity,
                       inflight, accepted>>

\* the orders of the collection of SpecReports: who ordered where, how far
\* the order got and who drives it
ReportProfiles ==
    {<<"c1", "r1", "delivered", "d1">>, <<"c2", "r2", "delivered", "d2">>,
     <<"c1", "r2", "pending", Null>>, <<"c2", "r1", "cancelled", Null>>,
     <<"c1", "r1", "picked-up", "d1">>}

ReportItems(o) ==
    IF o = 1 THEN <<Item("m1", 2, <<>>)>>
    ELSE IF o = 2 THEN <<Item("m1", 1, <<>>), Item("m2", 1, <<>>)>>
    ELSE <<Item("m2", 3, <<>>)>>

ReportCollection(profile) ==
    [o \in 1..3 |->
        [NoOrder EXCEPT
            !.exists = TRUE,
            !.customer = profile[o][1],
            !.restaurant = profile[o][2],
            !.status = profile[o][3],
            !.driver = profile[o][4],
            !.items = ReportItems(o),
            !.pricing = calculatePricing(orderItems(ReportItems(o)),
                                         RestaurantDeliveryFee(profile[o][2]),
                                         FALSE, NoEnv),
            !.payMethod = "cash",
            !.payStatus = IF profile[o][3] = "delivered" THEN "completed" ELSE @,
            !.orderNumber = "ORD-" \o ToString(o)]]

InitReports ==
    /\ \E profile \in [1..3 -> ReportProfiles] :
          orders = ReportCollection(profile)
    /\ isAvailable = [d \in Drivers |-> d = "d2"]
    /\ totalDeliveries = [d \in Drivers |-> 0]
    /\ stats = [r \in Restaurants |-> [totalOrders |-> 0, totalRevenue |-> 0]]
    /\ popularity = [m \in MenuItems |-> 0]
    /\ inflight = EmptyBag
    /\ resp = NoResp
    /\ accepted = [o \in Orders |-> {}]
    /\ nops = ReportOps

NextReports ==
    \/ \E u \in Accounts, status \in {Null, "delivered", "pending"},
          page \in {1, 2}, limit \in {2, 20} :
          getOrders(u, status, page, limit)
    \/ \E u \in Admins, ranged \in BOOLEAN, range \in Ranges :
          getStats(u, ranged, range)
    \/ \E u \in {"w1", "a1"}, restaurantId \in {"r1", "r2"},
          ranged \in BOOLEAN, range \in Ranges :
          getAnalytics(u, restaurantId, ranged, range)
    \/ \E u \in Accounts, ranged \in BOOLEAN, range \in Ranges :
          getEarnings(u, ranged, range)

SpecReports == InitReports /\ [][NextReports]_vars

\* ------------------------------------------- drivers taking orders to deliver
\* the collection of SpecAssignment: three orders of the near restaurant, each
\* ready or still in the kitchen, none with a driver
AssignmentStatuses == {"ready", "preparing"}

InitAssignment ==
    /\ \E st \in [1..3 -> AssignmentStatuses] :
          orders = DispatchCollection(0, st, [o \in 1..3 |-> Null],
                                      [o \in 1..3 |-> "r1"])
    /\ isAvailable = [d \in Drivers |-> FALSE]
    /\ totalDeliveries = [d \in Drivers |-> 0]
    /\ stats = [r \in Restaurants |-> [totalOrders |-> 0, totalRevenue |-> 0]]
    /\ popularity = [m \in MenuItems |-> 0]
    /\ inflight = EmptyBag
    /\ resp = NoResp
    /\ accepted = [o \in 1..3 |-> {}]
    /\ nops = AssignmentOps

NextAssignment ==
    \/ \E u \in Drivers, located \in BOOLEAN, plan \in QueryPlans :
          getAvailableOrders(u, located, 0, plan)
    \/ \E u \in Drivers, o \in DOMAIN orders : acceptOrder(u, o)
    \/ \E r \in BagToSet(inflight) : acceptOrderSave(r)
    \/ \E r \in BagToSet(inflight) : acceptOrderDriverUpdate(r, TRUE)
    \/ \E u \in Drivers : toggleAvailability(u)
    \/ \E r \in BagToSet(inflight) : toggleAvailabilitySave(r)

SpecAssignment == InitAssignment /\ [][NextAssignment]_vars

\* =================================================================== claims
Cancellable ==
    {"pending", "confirmed", "preparing", "ready", "assigned", "picked-up",
     "on-the-way"}

StatusRequests == {"updateOrderStatus", "pickupOrder", "completeDelivery"}

\* the response is about an order that exists
RespOnOrder == resp.op # "none" /\ resp.oid \in Orders /\ orders[resp.oid].exists

\* handler r takes its save step and goes on to the await named pc
SaveStep(r, pc) ==
    /\ r.pc = "save"
    /\ inflight' = (inflight (-) SetToBag({r})) (+) SetToBag({[r EXCEPT !.pc = pc]})

\* C1: of the acceptOrder calls made on one order (two drivers racing on a
\* ready, unassigned order included) exactly one is answered with success,
\* and the order is held by that driver.
C1_SingleWinner ==
    \A o \in Orders :
        /\ Cardinality(accepted[o]) <= 1
        /\ accepted[o] # {} => orders[o].driver \in accepted[o]

\* C2: once the driver of an order is set, no step sets it to another driver.
C2_DriverNeverReplaced ==
    [][\A o \in Orders :
          orders[o].driver # Null => orders'[o].driver = orders[o].driver]_vars

\* C3: an order that is pending, confirmed, preparing or ready has no driver.
C3_NoDriverBeforeAssigned ==
    \A o \in Orders :
        (orders[o].exists
         /\ orders[o].status \in {"pending", "confirmed", "preparing", "ready"})
        => orders[o].driver = Null

\* C4: a status request whose target is another status than the one the order
\* has, and not a direct successor of it, fails: it is never answered with
\* success.
C4_IllegalTransitionRefused ==
    (/\ RespOnOrder
     /\ resp.op \in StatusRequests
     /\ resp.target \in StatusEnum
     /\ resp.target # resp.doc.status
     /\ resp.target \notin Successors(resp.doc.status))
    => resp.out # "ok"

\* C5: the status of an order never returns to pending nor to any status the
\* order has already been in.
C5_StatusNeverGoesBack ==
    [][\A o \in Orders :
          (orders[o].exists /\ orders'[o].status # orders[o].status)
          => /\ orders'[o].status # "pending"
             /\ \A i \in 1..Len(orders[o].statusHistory) :
                    orders[o].statusHistory[i] # orders'[o].status]_vars

\* C6: cancelOrder succeeds only on an order that is pending, confirmed,
\* preparing, ready, assigned, picked-up or on-the-way; on a delivered,
\* cancelled or rejected order it fails.
C6_CancelOnlyWhileActive ==
    (RespOnOrder /\ resp.op = "cancelOrder" /\ resp.out = "ok")
    => resp.doc.status \in Cancellable

\* the actor the state machine authorizes for a target status
AuthorizedFor(u, target, o, driver) ==
    IF target \in RestaurantTargets
    THEN u = RestaurantOwner(orders[o].restaurant)
    ELSE IF target \in DriverTargets
    THEN driver # Null /\ u = driver
    ELSE IF target = "cancelled"
    THEN \/ u = orders[o].customer
         \/ u = RestaurantOwner(orders[o].restaurant)
         \/ Role(u) = "admin"
    ELSE TRUE

\* C7: whatever endpoint sets the status, a status change is answered with
\* success only for an actor authorized for the target status.
C7_OnlyAuthorizedActor ==
    (/\ RespOnOrder
     /\ resp.op \in StatusRequests \cup {"cancelOrder"}
     /\ resp.out = "ok")
    => AuthorizedFor(resp.actor, resp.target, resp.oid, resp.doc.driver)

\* C8: a request that is both unauthorized and illegal for the status of the
\* order is answered with Forbidden (cancelOrder, and pickupOrder on an order
\* that has a driver).
C8_ForbiddenBeforeInvalid ==
    /\ (/\ RespOnOrder
        /\ resp.op = "cancelOrder"
        /\ ~AuthorizedFor(resp.actor, "cancelled", resp.oid, resp.doc.driver)
        /\ resp.doc.status \notin Cancellable)
       => resp.out = "Forbidden"
    /\ (/\ RespOnOrder
        /\ resp.op = "pickupOrder"
        /\ resp.doc.driver # Null
        /\ resp.doc.driver # resp.actor
        /\ resp.doc.status # "assigned")
       => resp.out = "Forbidden"

\* C9: acceptOrder writes only to an order that is ready and without driver
\* at the moment of the write, and then makes the caller its driver and the
\* status assigned and ends with the caller unavailable; a refused call names
\* the reason and changes neither the order nor any availability flag.
C9_AcceptChecksAtWrite ==
    [][/\ \A r \in BagToSet(inflight) :
            (r.op = "acceptOrder" /\ SaveStep(r, "driverUpdate"))
            => LET o == r.oid
               IN  /\ orders[o].exists
                   /\ orders[o].status = "ready"
                   /\ orders[o].driver = Null
                   /\ orders'[o].driver = r.actor
                   /\ orders'[o].status = "assigned"
       /\ (resp'.op = "acceptOrder" /\ resp'.out = "ok")
            => ~isAvailable'[resp'.actor]
       /\ (resp'.op = "acceptOrder" /\ resp'.out # "ok")
            => /\ UNCHANGED <<orders, isAvailable>>
               /\ resp'.out =
                     IF ~orders[resp'.oid].exists THEN "NotFound"
                     ELSE IF orders[resp'.oid].status # "ready" THEN "NotReady"
                     ELSE "AlreadyAssigned"]_vars

\* is h a prefix of g
IsPrefix(h, g) ==
    /\ Len(h) <= Len(g)
    /\ \A i \in 1..Len(h) : h[i] = g[i]

\* C10: a step that changes the status of an order appends exactly one entry
\* to its statusHistory, the new status; no step appends more than one entry,
\* removes an entry or rewrites one.
C10_HistoryAppendOnly ==
    [][\A o \in Orders :
          LET h == orders[o].statusHistory
              g == orders'[o].statusHistory
          IN  /\ IsPrefix(h, g)
              /\ Len(g) <= Len(h) + 1
              /\ (orders[o].exists /\ orders'[o].status # orders[o].status)
                 => g = Append(h, orders'[o].status)]_vars

\* a status-changing request has just been answered with success and the
\* history ends with the status it set
C10_Witness ==
    /\ RespOnOrder
    /\ resp.op \in StatusRequests \cup {"cancelOrder", "acceptOrder"}
    /\ resp.out = "ok"
    /\ resp.target # resp.doc.status
    /\ Len(orders[resp.oid].statusHistory) >= 2
    /\ orders[resp.oid].statusHistory[Len(orders[resp.oid].statusHistory)]
          = resp.target

\* the statuses of the full lifecycle after the creation of the order
LifecycleAfterCreation ==
    <<"confirmed", "preparing", "ready", "assigned", "picked-up", "delivered">>

\* is t a suffix of h
IsSuffix(t, h) ==
    /\ Len(t) <= Len(h)
    /\ SubSeq(h, Len(h) - Len(t) + 1, Len(h)) = t

\* C11: an order that was created and then went through confirmed, preparing,
\* ready, assigned, picked-up and delivered has a statusHistory of exactly
\* seven entries: pending, then these six, in that order.
C11_FullLifecycleHistory ==
    \A o \in Orders :
        (/\ orders[o].exists
         /\ orders[o].status = "delivered"
         /\ IsSuffix(LifecycleAfterCreation, orders[o].statusHistory)
         /\ Len(orders[o].statusHistory) <= 7)
        => orders[o].statusHistory = <<"pending">> \o LifecycleAfterCreation

\* the number of copies of handler r in bag b
Copies(r, b) == IF r \in BagToSet(b) THEN b[r] ELSE 0

\* handler r, waiting for its save, takes this step
Saves(r) ==
    /\ r.pc = "save"
    /\ r.oid \in Orders
    /\ Copies(r, inflight') < Copies(r, inflight)

\* C12: a cancel or status request that finds the order in its target status
\* already (the retry of a request that succeeded) appends nothing to the
\* statusHistory: a repeated cancelOrder is refused before it writes, a
\* repeated status request saves without a new entry.
C12_RetryAppendsNothing ==
    [][/\ \A r \in BagToSet(inflight) :
            (/\ Saves(r)
             /\ r.op \in StatusRequests \cup {"cancelOrder"}
             /\ r.doc.status = r.target)
            => Len(orders'[r.oid].statusHistory) = Len(orders[r.oid].statusHistory)
       /\ (/\ resp'.op = "cancelOrder"
           /\ resp'.oid \in Orders
           /\ resp'.doc.status = "cancelled")
            => /\ resp'.out # "ok"
               /\ UNCHANGED orders]_vars

\* a repeated status request has been answered with success and the history
\* holds its status once
C12_Witness ==
    /\ RespOnOrder
    /\ resp.op \in StatusRequests
    /\ resp.out = "ok"
    /\ resp.doc.status = resp.target
    /\ Cardinality({i \in 1..Len(orders[resp.oid].statusHistory) :
                        orders[resp.oid].statusHistory[i] = resp.target}) = 1

\* C13: status-changing requests on one order are serialized: a request
\* writes to the order it was judged against, so that of two requests that
\* both read the order as ready (cancelOrder and acceptOrder, say) the later
\* one sees the status written by the earlier one.
C13_SerializedPerOrder ==
    [][\A r \in BagToSet(inflight) :
          (/\ Saves(r)
           /\ r.op \in StatusRequests \cup {"cancelOrder", "acceptOrder"}
           /\ r.target \in StatusEnum \ {r.doc.status})
          => /\ orders[r.oid].status = r.doc.status
             /\ orders[r.oid].driver = r.doc.driver]_vars

\* C14: a request that is answered with success for the target delivered,
\* through completeDelivery or updateOrderStatus, leaves the order with
\* deliveredAt, paidAt and payment status completed, the restaurant with the
\* order's restaurantEarnings in its revenue, and the driver with one more
\* delivery and available; the counters change in no step of any other request.
C14_DeliveredSideEffects ==
    [][/\ (/\ resp'.op \in {"completeDelivery", "updateOrderStatus"}
           /\ resp'.target = "delivered"
           /\ resp'.out = "ok")
          => LET order == orders'[resp'.oid]
             IN  /\ {"deliveredAt", "paidAt"} \subseteq order.stamps
                 /\ order.payStatus = "completed"
                 /\ stats'[order.restaurant].totalRevenue
                       >= order.pricing.restaurantEarnings
                 /\ totalDeliveries'[resp'.actor] >= 1
                 /\ isAvailable'[resp'.actor]
       /\ (totalDeliveries' # totalDeliveries \/ stats' # stats)
          => \E r \in BagToSet(inflight) :
                /\ r.target = "delivered"
                /\ Copies(r, inflight') < Copies(r, inflight)]_vars

\* C15: the save of a cancelOrder leaves the order cancelled, with the reason
\* of the request, cancelledAt, and cancelledBy = customer when the actor is
\* the customer of the order, restaurant when the actor owns its restaurant,
\* admin otherwise; the request is then answered with success.
C15_CancellationRecord ==
    [][\A r \in BagToSet(inflight) :
          (Saves(r) /\ r.op = "cancelOrder")
          => LET before == orders[r.oid]
                 after == orders'[r.oid]
             IN  /\ after.status = "cancelled"
                 /\ after.cancelReason = r.reason
                 /\ "cancelledAt" \in after.stamps
                 /\ after.cancelledBy =
                       IF r.actor = before.customer THEN "customer"
                       ELSE IF r.actor = RestaurantOwner(before.restaurant)
                       THEN "restaurant"
                       ELSE "admin"
                 /\ resp'.op = "cancelOrder" /\ resp'.out = "ok"]_vars

\* the customer has cancelled a pending order giving "changed mind"
C15_Witness ==
    /\ RespOnOrder
    /\ resp.op = "cancelOrder"
    /\ resp.out = "ok"
    /\ resp.doc.status = "pending"
    /\ resp.actor = orders[resp.oid].customer
    /\ orders[resp.oid].status = "cancelled"
    /\ orders[resp.oid].cancelReason = "changed mind"
    /\ orders[resp.oid].cancelledBy = "customer"

\* C16: the save of a cancelOrder leaves the payment of the order as it was:
\* method, status, transaction id and paidAt; in particular the status does
\* not become refunded.
C16_CancelKeepsPayment ==
    [][\A r \in BagToSet(inflight) :
          (Saves(r) /\ r.op = "cancelOrder")
          => LET before == orders[r.oid]
                 after == orders'[r.oid]
             IN  /\ after.payMethod = before.payMethod
                 /\ after.payStatus = before.payStatus
                 /\ after.transactionId = before.transactionId
                 /\ ("paidAt" \in after.stamps) = ("paidAt" \in before.stamps)]_vars

\* an order paid by card, with a transaction id, has been cancelled
C16_Witness ==
    /\ RespOnOrder
    /\ resp.op = "cancelOrder"
    /\ resp.out = "ok"
    /\ orders[resp.oid].status = "cancelled"
    /\ orders[resp.oid].payMethod = "card"
    /\ orders[resp.oid].payStatus = "completed"
    /\ orders[resp.oid].transactionId # Null
    /\ "paidAt" \in orders[resp.oid].stamps

\* the response lists orders for a driver position
ListsOrders == resp.op = "getAvailableOrders" /\ resp.out = "ok"

\* the distance from the position of the query to the restaurant of order o
Listed(i) == resp.data[i]
ListedDistance(i) ==
    LET at == RestaurantLocation(orders[Listed(i)].restaurant)
    IN  IF resp.query >= at THEN resp.query - at ELSE at - resp.query

\* C17: every order getAvailableOrders lists is ready, has no driver and is of
\* a restaurant within 10 km of the position of the query, and the list is in
\* ascending order of distance.
C17_ListedOrdersQualify ==
    ListsOrders
    => \A i \in 1..Len(resp.data) :
          /\ orders[Listed(i)].status = "ready"
          /\ orders[Listed(i)].driver = Null
          /\ ListedDistance(i) <= 10
          /\ \A j \in (i + 1)..Len(resp.data) :
                ListedDistance(i) <= ListedDistance(j)

\* a list whose second order is farther and was created before the first,
\* while a ready order with a driver and an order out of reach are left out
C17_Witness ==
    /\ ListsOrders
    /\ Len(resp.data) >= 2
    /\ ListedDistance(1) < ListedDistance(2)
    /\ Listed(2) < Listed(1)
    /\ \E o \in DOMAIN orders :
          orders[o].status = "ready" /\ orders[o].driver # Null
    /\ \E o \in DOMAIN orders :
          /\ orders[o].status = "ready"
          /\ orders[o].driver = Null
          /\ \A i \in 1..Len(resp.data) : Listed(i) # o

\* C18: getAvailableOrders lists every order that is ready, has no driver and
\* is of a restaurant within the radius, however many ready orders there are
\* (of ready orders at 2, 8 and 15 km it lists the ones at 2 and 8 km).
C18_ListsEveryCandidate ==
    ListsOrders
    => \A o \in DOMAIN orders :
          (/\ orders[o].status = "ready"
           /\ orders[o].driver = Null
           /\ LET at == RestaurantLocation(orders[o].restaurant)
              IN  (IF resp.query >= at THEN resp.query - at ELSE at - resp.query)
                    <= 10)
          => \E i \in 1..Len(resp.data) : Listed(i) = o

\* C19: of two listed orders at the same distance the one created earlier
\* comes first.
C19_TiesByCreation ==
    ListsOrders
    => \A i \in 1..Len(resp.data) : \A j \in (i + 1)..Len(resp.data) :
          ListedDistance(i) = ListedDistance(j) => Listed(i) < Listed(j)

\* the subtotal of an order: for each item, the unit price and the prices of
\* its selected options, times the quantity
RECURSIVE ItemsTotal(_)
ItemsTotal(items) ==
    IF items = <<>> THEN 0
    ELSE (MenuItemPrice(Head(items).menuItem) + Sum(Head(items).options))
           * Head(items).quantity
         + ItemsTotal(Tail(items))

\* C20: the pricing snapshot of a stored order has tax = discount = 0,
\* total = subtotal + deliveryFee + serviceFee + tax - discount, and its
\* subtotal is the sum over the items of unit price x quantity plus the
\* prices of the selected options x quantity.
C20_TotalIsSumOfParts ==
    \A o \in Orders :
        orders[o].exists
        => LET p == orders[o].pricing
           IN  /\ p.tax = 0
               /\ p.discount = 0
               /\ p.total = p.subtotal + p.deliveryFee + p.serviceFee + p.tax
                               - p.discount
               /\ p.subtotal = ItemsTotal(orders[o].items)

\* an order of two items, one of them with two options and a quantity above
\* one, has been stored
C20_Witness ==
    \E o \in Orders :
        /\ orders[o].exists
        /\ Len(orders[o].items) = 2
        /\ \E i \in 1..2 :
              /\ Len(orders[o].items[i].options) = 2
              /\ orders[o].items[i].quantity > 1
        /\ orders[o].pricing.total > orders[o].pricing.subtotal

\* the latest step was a createOrder that stored an order
Created == resp.op = "createOrder" /\ resp.oid \in Orders

C22_SurgeDeliveryFee ==
    Created
    => LET order == orders[resp.oid]
           p == order.pricing
           base == RestaurantDeliveryFee(order.restaurant)
           multiplier ==
               parseFloatOr(resp.env.SURGE_MULTIPLIER, SURGE_MULTIPLIER_PERCENT)
       IN  /\ order.isSurgeTime => p.deliveryFee * 100 = base * multiplier
           /\ ~order.isSurgeTime => p.deliveryFee = base
           /\ p.driverEarnings = p.deliveryFee

\* an order has been created under surge with multiplier 1.5 at a restaurant
\* with base fee 3.00: the fee and the driver's earnings are 4.50
C22_Witness ==
    /\ Created
    /\ orders[resp.oid].isSurgeTime
    /\ resp.env.SURGE_MULTIPLIER = <<150>>
    /\ RestaurantDeliveryFee(orders[resp.oid].restaurant) = 300 * 100
    /\ orders[resp.oid].pricing.deliveryFee = 450 * 100
    /\ orders[resp.oid].pricing.driverEarnings = 450 * 100

\* C23: a createOrder that is rejected (restaurant missing, inactive or
\* closed; unknown payment method; menu item missing or unavailable; subtotal
\* below the restaurant's minimumOrder) stores no order, publishes no event
\* and leaves the popularity counters as they were.
C23_RejectedOrderLeavesNoTrace ==
    [][(resp'.op = "createOrder" /\ resp'.out = "BadRequest" /\ nops' # nops)
       => /\ orders' = orders
          /\ popularity' = popularity
          /\ resp'.events = {}]_vars

\* an order of 8.00 at a restaurant with minimum 10.00 has just been rejected
\* after an earlier order had been stored and counted
C23_Witness ==
    /\ resp.op = "createOrder"
    /\ resp.out = "BadRequest"
    /\ resp.message = "Minimum order amount"
    /\ \E o \in Orders : orders[o].exists
    /\ \E m \in MenuItems : popularity[m] > 0

\* C24: once an order exists, no operation (status update, assignment, pickup,
\* delivery, cancellation, payment confirmation, webhook or refund) changes a
\* field of its pricing snapshot.
C24_PricingImmutable ==
    [][\A o \in Orders :
          orders[o].exists => orders'[o].pricing = orders[o].pricing]_vars

\* an order with a total above zero has been assigned, delivered, paid and
\* refunded
C24_Witness ==
    \E o \in Orders :
        /\ orders[o].exists
        /\ orders[o].status = "delivered"
        /\ orders[o].driver # Null
        /\ orders[o].payStatus = "refunded"
        /\ "paidAt" \in orders[o].stamps
        /\ orders[o].pricing.total > 0

\* C25: every stored order has an order number, given to it by the creating
\* save, and no later save changes it.
C25_OrderNumberAssignedOnce ==
    [][\A o \in Orders :
          /\ orders'[o].exists => orders'[o].orderNumber # Null
          /\ orders[o].exists => orders'[o].orderNumber = orders[o].orderNumber]_vars

\* an order has been saved again four times since its creation and a
\* cancellation has just been saved
C25_Witness ==
    \E o \in Orders :
        /\ orders[o].exists
        /\ orders[o].orderNumber = FirstNumber
        /\ Len(orders[o].statusHistory) >= 3
        /\ orders[o].transactionId # Null
        /\ resp.op = "cancelOrder"
        /\ resp.out = "ok"

\* C26: a failure of publishing an event never blocks the operation: the
\* caller is still told that it succeeded, and createOrder still raises the
\* popularity counters.
C26_PublishFailureHarmless ==
    [][(resp'.emitFailed /\ (nops' # nops \/ inflight' # inflight))
       => /\ resp'.out = "ok"
          /\ resp'.op = "createOrder" => popularity' # popularity]_vars

\* C29: pickupOrder or completeDelivery called by a driver on an existing
\* order without a driver fails with Forbidden, not with an internal error.
C29_NoDriverIsForbidden ==
    (/\ RespOnOrder
     /\ resp.op \in {"pickupOrder", "completeDelivery"}
     /\ resp.doc.driver = Null)
    => resp.out = "Forbidden"

\* C30: an order whose status is assigned, picked-up, on-the-way or delivered
\* has a driver.
C30_DriverPhaseHasDriver ==
    \A o \in Orders :
        (orders[o].exists
         /\ orders[o].status \in {"assigned", "picked-up", "on-the-way", "delivered"})
        => orders[o].driver # Null

\* C27: getOrders lists to a customer only orders whose customer is that
\* user, to a restaurant-role user only orders of a restaurant that user
\* owns, to a driver only orders whose driver is that user and to an admin all
\* orders; with a status filter, only orders in that status.
C27_ListingIsRoleScoped ==
    resp.op = "getOrders"
    => LET u == resp.actor
           listed == {resp.data.orders[i] : i \in 1..Len(resp.data.orders)}
       IN  /\ \A o \in listed :
                 /\ Role(u) = "customer" => orders[o].customer = u
                 /\ Role(u) = "restaurant"
                       => RestaurantOwner(orders[o].restaurant) = u
                 /\ Role(u) = "driver" => orders[o].driver = u
                 /\ resp.target # Null => orders[o].status = resp.target
           /\ Role(u) = "admin"
                 => resp.data.total =
                       Cardinality({o \in DOMAIN orders :
                           /\ orders[o].exists
                           /\ resp.target # Null
                                 => orders[o].status = resp.target})

\* the latest response is a reporting view of a request with a date range
ReportedRange ==
    /\ resp.op \in {"getStats", "getAnalytics", "getEarnings"}
    /\ resp.query.ranged

\* C28: every figure of getStats, getAnalytics and getEarnings for a request
\* with a date range is computed over the orders within that range only, and
\* a revenue figure over the delivered ones of them only.
C28_FiguresWithinRange ==
    ReportedRange
    => LET lo == resp.query.range[1]
           hi == resp.query.range[2]
           within == {o \in DOMAIN orders :
                         /\ orders[o].exists
                         /\ lo <= CreatedAt(o)
                         /\ CreatedAt(o) <= hi}
           Delivered(found) == {o \in found : orders[o].status = "delivered"}
           mine == {o \in within : orders[o].restaurant = resp.query.restaurant}
           driven == {o \in DOMAIN orders :
                         /\ orders[o].exists
                         /\ orders[o].driver = resp.actor
                         /\ orders[o].status = "delivered"
                         /\ lo <= DeliveredAt(o)
                         /\ DeliveredAt(o) <= hi}
       IN  /\ resp.op = "getStats"
                 => /\ resp.data.total = Cardinality(within)
                    /\ resp.data.completed = Cardinality(Delivered(within))
                    /\ resp.data.active =
                          Cardinality({o \in within :
                                          orders[o].status \in ActiveStatuses})
                    /\ resp.data.revenue.totalRevenue
                          = SumOver(Delivered(within), "total")
           /\ resp.op = "getAnalytics"
                 => /\ resp.data.totalOrders = Cardinality(mine)
                    /\ resp.data.totalRevenue
                          = SumOver(Delivered(mine), "restaurantEarnings")
                    /\ \A day \in DOMAIN resp.data.dailyStats :
                          LET ofDay == {o \in mine : CreatedAt(o) = day}
                          IN  /\ resp.data.dailyStats[day].orders
                                    = Cardinality(ofDay)
                              /\ resp.data.dailyStats[day].revenue
                                    = SumOver(Delivered(ofDay), "restaurantEarnings")
           /\ resp.op = "getEarnings"
                 => /\ resp.data.totalDeliveries = Cardinality(driven)
                    /\ resp.data.totalEarnings = SumOver(driven, "driverEarnings")

\* the delivered orders of restaurant r, and those driver d holds
DeliveredOf(r) ==
    {o \in DOMAIN orders : /\ orders[o].exists
                           /\ orders[o].restaurant = r
                           /\ orders[o].status = "delivered"}

DeliveredBy(d) ==
    {o \in DOMAIN orders : /\ orders[o].exists
                           /\ orders[o].driver = d
                           /\ orders[o].status = "delivered"}

\* C31: between requests, every restaurant's stats.totalOrders is the number
\* of its delivered orders and stats.totalRevenue the sum of their
\* restaurantEarnings, and every driver's totalDeliveries is the number of
\* delivered orders the driver holds: each delivery is counted exactly once.
C31_DeliveredCountedOnce ==
    Idle
    => /\ \A r \in Restaurants :
             /\ stats[r].totalOrders = Cardinality(DeliveredOf(r))
             /\ stats[r].totalRevenue = SumOver(DeliveredOf(r), "restaurantEarnings")
       /\ \A d \in Drivers : totalDeliveries[d] = Cardinality(DeliveredBy(d))

TerminalStatuses == {"delivered", "cancelled", "rejected"}

\* C32: once a request has brought an order with a driver to delivered,
\* cancelled or rejected and has been answered, that driver's availability
\* is true again, whichever endpoint made the change.
C32_TerminalOrderFreesDriver ==
    (/\ Idle
     /\ resp.op \in {"updateOrderStatus", "completeDelivery", "cancelOrder"}
     /\ resp.out = "ok"
     /\ orders[resp.oid].status \in TerminalStatuses
     /\ orders[resp.oid].driver # Null)
    => isAvailable[orders[resp.oid].driver]

\* the orders driver d is delivering
ActiveOrdersOf(d) ==
    {o \in DOMAIN orders : /\ orders[o].exists
                           /\ orders[o].driver = d
                           /\ orders[o].status \in {"assigned", "picked-up",
                                                    "on-the-way"}}

\* C33: a driver is the driver of at most one order in status assigned,
\* picked-up or on-the-way.
C33_OneActiveOrderPerDriver ==
    \A d \in Drivers : Cardinality(ActiveOrdersOf(d)) <= 1

\* C34: of an order whose status has changed, the status of the last
\* statusHistory entry is the order's current status, in every state of every
\* interleaving of the handlers working on it.
C34_LastEntryIsStatus ==
    \A o \in Orders :
        LET order == orders[o]
        IN  (order.exists /\ (order.status # "pending" \/ order.statusHistory # <<>>))
            => /\ order.statusHistory # <<>>
               /\ order.statusHistory[Len(order.statusHistory)] = order.status

\* two handlers that read the order as ready have both saved: the cancellation
\* first, the assignment on top of it
C34_Witness ==
    \E o \in Orders :
        LET history == orders[o].statusHistory
        IN  /\ Len(history) >= 2
            /\ history[Len(history) - 1] = "cancelled"
            /\ history[Len(history)] = "assigned"
            /\ orders[o].status = "assigned"

PassedChecks == resp.op = "createOrder" /\ resp.out # "BadRequest"

\* C36: a createOrder that passed all checks has stored an order, whether a
\* surge multiplier is configured or not; the stored surgeMultiplier is the
\* multiplier applied to the delivery fee under surge (1.5 when none is
\* configured) and 1.0 otherwise.
C36_StoredSurgeMultiplier ==
    PassedChecks
    => /\ resp.oid \in Orders
       /\ orders[resp.oid].exists
       /\ LET order == orders[resp.oid]
              applied ==
                  parseFloatOr(resp.env.SURGE_MULTIPLIER, SURGE_MULTIPLIER_PERCENT)
          IN  /\ order.isSurgeTime => order.surgeMultiplier = applied
              /\ ~order.isSurgeTime => order.surgeMultiplier = 100
              /\ order.pricing.deliveryFee * 100
                    = RestaurantDeliveryFee(order.restaurant) * order.surgeMultiplier

====
